---- MODULE Spec2Model ----
(***************************************************************************)
(* Model of streamlit_app.py: the text normalizer clean_html, the lazy     *)
(* batch pipeline extract_unusual_requirements (a Python generator), and   *)
(* the module-level upload/review loop that consumes it.                   *)
(*                                                                         *)
(* Python values are encoded as records [t |-> type name, s |-> payload],  *)
(* a str carrying its characters as a sequence of one-character strings.   *)
(* dicts are functions from keys to values; a missing key is a key that is *)
(* not in the DOMAIN.                                                      *)
(***************************************************************************)
EXTENDS Integers, Sequences, FiniteSets, TLC

VARIABLES
    requests_json,  \* the batch handed to extract_unusual_requirements
    gen_pc,         \* generator: "suspended" | "invoking" | "finished" | "closed" | "raised"
    i,              \* number of records the generator's for loop has taken
    outcomes,       \* every value the generator has yielded, in order
    calls,          \* every extraction_chain.invoke call, in order
    inFlight,       \* number of extractor calls issued and not yet returned
    escaped,        \* TRUE once an exception has left the generator
    cons_pc,        \* consumer: "load" | "head" | "waiting" | "got" | "done" |
                    \*           "stopped" | "crashed" | "exported"
    result,         \* loop variable of the consumer (last value next() returned)
    results,        \* the consumer's results list
    idx,            \* enumerate(..., 1) counter of the review loop
    total,          \* total = min(10, len(requests_data))
    progress_calls, \* arguments <<idx, total>> of every progress_bar.progress call
    rendered,       \* what the review loop rendered for each outcome it finished
    ui_error,       \* exception that ended the review loop ("" when none)
    export,         \* data of the download button
    t,              \* clean_html study: the input text
    pass1,          \* clean_html(t)
    pass2,          \* clean_html(clean_html(t))
    clean_pc        \* clean_html study: number of passes applied

vars == <<requests_json, gen_pc, i, outcomes, calls, inFlight, escaped,
          cons_pc, result, results, idx, total, progress_calls, rendered,
          ui_error, export, t, pass1, pass2, clean_pc>>

genVars == <<gen_pc, i, outcomes, calls, inFlight, escaped>>
uiVars == <<idx, total, progress_calls, rendered, ui_error, export>>
cleanVars == <<t, pass1, pass2, clean_pc>>

(***************************************************************************)
(* Bounds of the model and constants of the program                        *)
(***************************************************************************)
MaxBatch == 2       \* batches of every shape up to this length
MaxStrLen == 5      \* texts of every shape up to this length
Limit == 500        \* requests_json[:500]
ProgressCap == 10   \* total = min(10, len(requests_data))

Min(a, b) == IF a <= b THEN a ELSE b

(***************************************************************************)
(* Python values                                                           *)
(***************************************************************************)
Str(chars) == [t |-> "str", s |-> chars]
IntV(digits) == [t |-> "int", s |-> <<digits>>]
None == [t |-> "NoneType", s |-> <<>>]
Absent == [t |-> "absent", s |-> <<>>]   \* marks a key left out of a dict

\* A test that only asks `comment is not None`.
TruthyNotNone(v) == v.t # "NoneType"

\* bool(v): the test made by `if comment:`
Truthy(v) ==
    IF v.t = "str" THEN v.s # <<>>
    ELSE IF v.t = "int" THEN v.s # <<"0">>
    ELSE FALSE

\* dict.get(key, default)
Get(d, key, default) == IF key \in DOMAIN d THEN d[key] ELSE default

(***************************************************************************)
(* clean_html                                                              *)
(***************************************************************************)
Alphabet == {"a", " ", "<", ">", "\n"}
IsSpace(c) == c \in {" ", "\n"}

\* Where the lazy `.*?>` started after an opening "<" ends: the first ">"
\* at or after q that no newline precedes ("." does not match "\n");
\* 0 when the match fails.
RECURSIVE FindClose(_, _)
FindClose(s, q) ==
    IF q > Len(s) THEN 0
    ELSE IF s[q] = ">" THEN q
    ELSE IF s[q] = "\n" THEN 0
    ELSE FindClose(s, q + 1)

\* re.sub(r'<.*?>', ' ', text): leftmost non-overlapping matches
RECURSIVE re_sub(_, _)
re_sub(s, p) ==
    IF p > Len(s) THEN <<>>
    ELSE IF s[p] = "<" /\ FindClose(s, p + 1) # 0
         THEN <<" ">> \o re_sub(s, FindClose(s, p + 1) + 1)
         ELSE <<s[p]>> \o re_sub(s, p + 1)

\* A replace that collapses every run of spaces to one space.
RECURSIVE replaceRuns(_, _)
replaceRuns(s, p) ==
    IF p > Len(s) THEN <<>>
    ELSE IF p < Len(s) /\ s[p] = " " /\ s[p + 1] = " "
         THEN replaceRuns(s, p + 1)
         ELSE <<s[p]>> \o replaceRuns(s, p + 1)

\* str.replace('  ', ' '): one left-to-right pass over non-overlapping pairs
RECURSIVE replace(_, _)
replace(s, p) ==
    IF p > Len(s) THEN <<>>
    ELSE IF p < Len(s) /\ s[p] = " " /\ s[p + 1] = " "
         THEN <<" ">> \o replace(s, p + 2)
         ELSE <<s[p]>> \o replace(s, p + 1)

RECURSIVE lstrip(_)
lstrip(s) == IF s # <<>> /\ IsSpace(Head(s)) THEN lstrip(Tail(s)) ELSE s

RECURSIVE rstrip(_)
rstrip(s) ==
    IF s # <<>> /\ IsSpace(s[Len(s)]) THEN rstrip(SubSeq(s, 1, Len(s) - 1)) ELSE s

\* str.strip()
strip(s) == rstrip(lstrip(s))

clean_html(text) == strip(replace(re_sub(text, 1), 1))

\* re.sub raises TypeError when handed anything but a str
TypeErrorText == "expected string or bytes-like object"
CleanRaises(v) == v.t # "str"

(***************************************************************************)
(* Inputs: batches of request dicts, and what the extractor may answer     *)
(***************************************************************************)
NumberChoices == {Absent, IntV("7"), Str(<<"A", "8">>)}
MarkupOnly == Str(<<" ", "<", "a", ">", " ">>)
PlainText == Str(<<"a", "<", "a", ">">>)
CommentChoices == {Absent, None, Str(<<>>), MarkupOnly, IntV("5"), PlainText}

\* A request dict; Absent leaves the key out.
Rec(n, c) ==
    [k \in ({"number"} \ (IF n = Absent THEN {"number"} ELSE {}))
           \cup ({"Comment"} \ (IF c = Absent THEN {"Comment"} ELSE {}))
        |-> IF k = "number" THEN n ELSE c]

Records == {Rec(n, c) : n \in NumberChoices, c \in CommentChoices}
ShortBatches == UNION {[1..k -> Records] : k \in 0..MaxBatch}

\* Long batches, numbered 1..n. SparseBatch has a Comment only on the records
\* around the cut of requests_json[:500]; TextBatch has one on every record.
SparseBatch(n) ==
    [k \in 1..n |-> Rec(IntV(ToString(k)),
                        IF k \in {Limit, Limit + 1} THEN PlainText ELSE Absent)]
TextBatch(n) == [k \in 1..n |-> Rec(IntV(ToString(k)), PlainText)]

PipelineBatches == ShortBatches \cup {SparseBatch(n) : n \in {Limit, Limit + 1}}
UIBatches ==
    ShortBatches \cup {TextBatch(n) : n \in {ProgressCap, ProgressCap + 1, Limit + 1}}

\* ExtractionResult.unusual_requirements as the model may return it
ExtractionResults ==
    { <<>>,
      <<[requirement |-> "hotel by the sea", category |-> "location"],
        [requirement |-> "pets allowed", category |-> "None"]>> }
\* str(e) of what extraction_chain.invoke may raise
ErrorTexts == {"boom"}

Pending == [kind |-> "pending", reqs |-> <<>>, msg |-> ""]
Returned(er) == [kind |-> "ok", reqs |-> er, msg |-> ""]
Raised(m) == [kind |-> "raise", reqs |-> <<>>, msg |-> m]
NoResult == <<>>

(***************************************************************************)
(* extract_unusual_requirements                                            *)
(***************************************************************************)
\* Iterating the whole batch.
ConsideredAll(batch) == batch

\* requests_json[:500]
Considered(batch) == SubSeq(batch, 1, Min(Len(batch), Limit))

\* [{"requirement": req.requirement, "category": req.category} for req in ...]
unusual_reqs(er) ==
    [k \in 1..Len(er) |->
        [requirement |-> er[k].requirement, category |-> er[k].category]]

TextOutcome(request, comment, er) ==
    [number |-> Get(request, "number", None),
     original_comment |-> comment,
     unusual_requirements |-> unusual_reqs(er)]

\* An empty outcome that looks the number up under a key the record lacks.
EmptyOutcomeWrongKey(request) ==
    [number |-> Get(request, "Number", None), unusual_requirements |-> <<>>]

EmptyOutcome(request) ==
    [number |-> Get(request, "number", None), unusual_requirements |-> <<>>]

\* A failure outcome that also carries an empty requirement list.
FailureOutcomeWithList(number, text) ==
    [number |-> number, error |-> text, unusual_requirements |-> <<>>]

FailureOutcome(number, text) == [number |-> number, error |-> text]

\* A handler that indexes request["number"]: KeyError when the key is missing.
ExceptNumberIndexed(request) ==
    IF "number" \in DOMAIN request
    THEN [raised |-> FALSE, value |-> request["number"]]
    ELSE [raised |-> TRUE, value |-> None]

\* request.get("number") inside the except clause: never raises for a dict
ExceptNumber(request) == [raised |-> FALSE, value |-> Get(request, "number", None)]

\* A pipeline that appends to a list instead of yielding: the caller gets
\* nothing back and the loop goes on to the next record.
YieldAsAppend(o) ==
    /\ outcomes' = Append(outcomes, o)
    /\ gen_pc' = "suspended"
    /\ result' = result
    /\ cons_pc' = "head"

\* yield: the generator suspends and next() returns the value to the caller
Yield(o) ==
    /\ outcomes' = Append(outcomes, o)
    /\ gen_pc' = "suspended"
    /\ result' = o
    /\ cons_pc' = "got"

\* except Exception as e: yield {"number": ..., "error": str(e)}
\* An exception raised inside the clause itself leaves the generator.
Except(request, text) ==
    LET n == ExceptNumber(request) IN
    IF n.raised
    THEN /\ gen_pc' = "raised"
         /\ escaped' = TRUE
         /\ cons_pc' = "crashed"
         /\ UNCHANGED <<outcomes, result>>
    ELSE /\ Yield(FailureOutcome(n.value, text))
         /\ UNCHANGED escaped

CurrentRequest == Considered(requests_json)[i]
CurrentComment == Get(CurrentRequest, "Comment", Str(<<>>))

\* next(generator): run the loop body up to the next yield, the end of the
\* loop, or the blocking extractor call.
Resume ==
    /\ cons_pc = "head"
    /\ gen_pc = "suspended"
    /\ LET batch == Considered(requests_json) IN
       IF i >= Len(batch)
       THEN /\ gen_pc' = "finished"
            /\ cons_pc' = "done"
            /\ UNCHANGED <<i, outcomes, calls, inFlight, escaped, result>>
       ELSE LET request == batch[i + 1]
                comment == Get(request, "Comment", Str(<<>>))
            IN /\ i' = i + 1
               /\ IF ~Truthy(comment)
                  THEN /\ Yield(EmptyOutcome(request))
                       /\ UNCHANGED <<calls, inFlight, escaped>>
                  ELSE IF CleanRaises(comment)
                  THEN /\ Except(request, TypeErrorText)
                       /\ UNCHANGED <<calls, inFlight>>
                  ELSE /\ calls' = Append(calls,
                                      [idx |-> i,
                                       input |-> clean_html(comment.s),
                                       received |-> Len(results),
                                       answer |-> Pending])
                       /\ inFlight' = inFlight + 1
                       /\ gen_pc' = "invoking"
                       /\ cons_pc' = "waiting"
                       /\ UNCHANGED <<outcomes, escaped, result>>
    /\ UNCHANGED <<requests_json, results, uiVars, cleanVars>>

\* extraction_chain.invoke returns; the result dict is built and yielded
InvokeReturn ==
    /\ gen_pc = "invoking"
    /\ \E er \in ExtractionResults :
          /\ calls' = [calls EXCEPT ![Len(calls)].answer = Returned(er)]
          /\ Yield(TextOutcome(CurrentRequest, CurrentComment, er))
    /\ inFlight' = inFlight - 1
    /\ UNCHANGED <<requests_json, i, escaped, results, uiVars, cleanVars>>

\* extraction_chain.invoke raises; the except clause takes over
InvokeRaise ==
    /\ gen_pc = "invoking"
    /\ \E m \in ErrorTexts :
          /\ calls' = [calls EXCEPT ![Len(calls)].answer = Raised(m)]
          /\ Except(CurrentRequest, m)
    /\ inFlight' = inFlight - 1
    /\ UNCHANGED <<requests_json, i, results, uiVars, cleanVars>>

(***************************************************************************)
(* A caller that iterates the generator and keeps what it gets             *)
(***************************************************************************)
Collect ==
    /\ cons_pc = "got"
    /\ results' = Append(results, result)
    /\ cons_pc' = "head"
    /\ UNCHANGED <<requests_json, genVars, result, uiVars, cleanVars>>

\* The caller stops iterating; the abandoned generator is closed.
Stop ==
    /\ cons_pc = "head"
    /\ gen_pc = "suspended"
    /\ cons_pc' = "stopped"
    /\ gen_pc' = "closed"
    /\ UNCHANGED <<requests_json, i, outcomes, calls, inFlight, escaped,
                   result, results, uiVars, cleanVars>>

(***************************************************************************)
(* The upload/review loop                                                  *)
(***************************************************************************)
\* if uploaded_file: ... total = min(10, len(requests_data)); results = []
Upload ==
    /\ cons_pc = "load"
    /\ total' = Min(ProgressCap, Len(requests_json))
    /\ results' = <<>>
    /\ cons_pc' = "head"
    /\ UNCHANGED <<requests_json, genVars, result, idx, progress_calls,
                   rendered, ui_error, export, cleanVars>>

\* What the if/elif/else of the loop body shows for a result
Shown(r) ==
    IF "error" \in DOMAIN r THEN "error"
    ELSE IF r["unusual_requirements"] # <<>> THEN "requirements"
    ELSE "nothing found"

\* progress_bar.progress(value) rejects a float outside [0.0, 1.0]
ProgressRejects(num, den) == num > den

\* One iteration of `for idx, result in enumerate(..., 1)`. An exception in
\* the body ends the script run; the generator is abandoned.
LoopBody ==
    /\ cons_pc = "got"
    /\ idx' = idx + 1
    /\ IF "original_comment" \notin DOMAIN result
       THEN /\ rendered' = Append(rendered, "header only")
            /\ ui_error' = "KeyError"
            /\ cons_pc' = "crashed"
            /\ gen_pc' = "closed"
            /\ UNCHANGED <<results, progress_calls>>
       ELSE /\ rendered' = Append(rendered, Shown(result))
            /\ results' = Append(results, result)
            /\ IF total = 0
               THEN /\ ui_error' = "ZeroDivisionError"
                    /\ cons_pc' = "crashed"
                    /\ gen_pc' = "closed"
                    /\ UNCHANGED progress_calls
               ELSE /\ progress_calls' = Append(progress_calls, <<idx + 1, total>>)
                    /\ IF ProgressRejects(idx + 1, total)
                       THEN /\ ui_error' = "StreamlitAPIException"
                            /\ cons_pc' = "crashed"
                            /\ gen_pc' = "closed"
                       ELSE /\ cons_pc' = "head"
                            /\ UNCHANGED <<ui_error, gen_pc>>
    /\ UNCHANGED <<requests_json, i, outcomes, calls, inFlight, escaped,
                   result, total, export, cleanVars>>

\* st.success(...); st.download_button(data=json.dumps(results, ...))
Finish ==
    /\ cons_pc = "done"
    /\ export' = results
    /\ cons_pc' = "exported"
    /\ UNCHANGED <<requests_json, genVars, result, results, idx, total,
                   progress_calls, rendered, ui_error, cleanVars>>

(***************************************************************************)
(* clean_html applied once and twice                                       *)
(***************************************************************************)
Example == <<"a", " ", " ", "<", "a", ">", " ", " ", "a">>   \* "a  <b>  c"
Texts == UNION {[1..k -> Alphabet] : k \in 0..MaxStrLen} \cup {Example}

CleanOnce ==
    /\ clean_pc = 0
    /\ pass1' = clean_html(t)
    /\ clean_pc' = 1
    /\ UNCHANGED <<requests_json, genVars, cons_pc, result, results, uiVars, t, pass2>>

CleanTwice ==
    /\ clean_pc = 1
    /\ pass2' = clean_html(pass1)
    /\ clean_pc' = 2
    /\ UNCHANGED <<requests_json, genVars, cons_pc, result, results, uiVars, t, pass1>>

(***************************************************************************)
(* Specifications                                                          *)
(***************************************************************************)
Start(batches, pc, texts) ==
    /\ requests_json \in batches
    /\ gen_pc = "suspended"
    /\ i = 0
    /\ outcomes = <<>>
    /\ calls = <<>>
    /\ inFlight = 0
    /\ escaped = FALSE
    /\ cons_pc = pc
    /\ result = NoResult
    /\ results = <<>>
    /\ idx = 0
    /\ total = 0
    /\ progress_calls = <<>>
    /\ rendered = <<>>
    /\ ui_error = ""
    /\ export = <<>>
    /\ t \in texts
    /\ pass1 = <<>>
    /\ pass2 = <<>>
    /\ clean_pc = 0

\* the pipeline driven by a caller that pulls, keeps, and may stop
Init == Start(PipelineBatches, "head", {<<>>})
Next == Resume \/ InvokeReturn \/ InvokeRaise \/ Collect \/ Stop
Spec == Init /\ [][Next]_vars

\* the pipeline driven by the upload/review loop
InitUI == Start(UIBatches, "load", {<<>>})
NextUI == Upload \/ Resume \/ InvokeReturn \/ InvokeRaise \/ LoopBody \/ Finish
SpecUI == InitUI /\ [][NextUI]_vars

\* clean_html on its own
InitClean == Start({<<>>}, "idle", Texts)
NextClean == CleanOnce \/ CleanTwice
SpecClean == InitClean /\ [][NextClean]_vars

(***************************************************************************)
(* Properties                                                              *)
(***************************************************************************)
NumberOf(request) == Get(request, "number", None)
IsFailure(o) == DOMAIN o = {"number", "error"}
IsSuccessEmpty(o) ==
    /\ DOMAIN o = {"number", "unusual_requirements"}
    /\ o["unusual_requirements"] = <<>>
IsSuccessWithText(o) == DOMAIN o = {"number", "original_comment", "unusual_requirements"}

\* The Comment of a record is absent, null or the empty string.
CommentEmptyOrAbsent(request) ==
    \/ "Comment" \notin DOMAIN request
    \/ request["Comment"] = None
    \/ request["Comment"] = Str(<<>>)

\* The calls made for the record at 0-based index k.
CallsFor(k) == {c \in 1..Len(calls) : calls[c].idx = k}

\* C1: fully consuming the pipeline yields exactly min(len(input), 500)
\* outcomes, one per considered record whatever its shape; records at index
\* 500 and beyond get no outcome and no extractor call.
C1_OutcomeCount ==
    /\ Len(outcomes) <= Min(Len(requests_json), Limit)
    /\ \A c \in 1..Len(calls) : calls[c].idx < Limit
    /\ cons_pc = "done" =>
          /\ Len(outcomes) = Min(Len(requests_json), Limit)
          /\ Len(results) = Min(Len(requests_json), Limit)

C1_Witness ==
    /\ cons_pc = "done"
    /\ Len(requests_json) > Limit
    /\ Len(outcomes) = Limit
    /\ Len(calls) = 1

\* C2: the k-th outcome carries the k-th record's number unchanged, in all
\* three outcome shapes, and what the caller has received is the yielded
\* sequence in order, nothing reordered, duplicated or skipped.
C2_NumberPreserved ==
    /\ \A k \in 1..Len(outcomes) :
          /\ "number" \in DOMAIN outcomes[k]
          /\ outcomes[k]["number"] = NumberOf(requests_json[k])
    /\ Len(results) <= Len(outcomes)
    /\ \A k \in 1..Len(results) : results[k] = outcomes[k]

C2_Witness ==
    /\ Len(results) = 2
    /\ IsSuccessEmpty(outcomes[1])
    /\ outcomes[1]["number"] = IntV("7")
    /\ IsFailure(outcomes[2])
    /\ outcomes[2]["number"] = Str(<<"A", "8">>)

\* C3: a record whose Comment is empty or absent yields exactly
\* {number, unusual_requirements: []} and never reaches the extractor; the
\* extractor is invoked at most once per record and only for records with a
\* non-empty Comment.
C3_EmptyCommentSkipsExtractor ==
    /\ \A k \in 1..Len(outcomes) :
          CommentEmptyOrAbsent(requests_json[k]) =>
             /\ IsSuccessEmpty(outcomes[k])
             /\ outcomes[k]["number"] = NumberOf(requests_json[k])
             /\ CallsFor(k - 1) = {}
    /\ \A k \in 0..(Len(requests_json) - 1) : Cardinality(CallsFor(k)) <= 1
    /\ \A c \in 1..Len(calls) :
          LET request == requests_json[calls[c].idx + 1] IN
          /\ "Comment" \in DOMAIN request
          /\ request["Comment"].t = "str"
          /\ request["Comment"].s # <<>>

C3_Witness ==
    /\ Len(outcomes) = 2
    /\ Get(requests_json[1], "Comment", Absent) = PlainText
    /\ Len(calls) = 1
    /\ requests_json[2] = Rec(IntV("7"), Absent)
    /\ IsSuccessEmpty(outcomes[2])

\* What one record's outcome is, given only that record and how the
\* extractor answered for it (Pending when it was not asked).
C4_Expected(request, answer) ==
    IF answer.kind = "raise"
    THEN [number |-> NumberOf(request), error |-> answer.msg]
    ELSE IF answer.kind = "ok"
    THEN [number |-> NumberOf(request),
          original_comment |-> request["Comment"],
          unusual_requirements |-> answer.reqs]
    ELSE IF CommentEmptyOrAbsent(request)
    THEN [number |-> NumberOf(request), unusual_requirements |-> <<>>]
    ELSE [number |-> NumberOf(request), error |-> TypeErrorText]

C4_AnswerFor(k) ==
    IF CallsFor(k - 1) = {} THEN Pending
    ELSE calls[CHOOSE c \in CallsFor(k - 1) : TRUE].answer

\* C4: when the extractor raises for a record, that record's outcome is
\* exactly {number, error: text of the error}, with no unusual_requirements
\* and no original_comment; every record after it still gets its outcome,
\* and each outcome depends on its own record and extractor answer only.
C4_FailureIsolated ==
    /\ \A c \in 1..Len(calls) :
          calls[c].answer.kind = "raise" =>
             /\ Len(outcomes) > calls[c].idx
             /\ IsFailure(outcomes[calls[c].idx + 1])
             /\ outcomes[calls[c].idx + 1]["error"] = calls[c].answer.msg
    /\ \A k \in 1..Len(outcomes) :
          /\ DOMAIN outcomes[k] = DOMAIN C4_Expected(requests_json[k], C4_AnswerFor(k))
          /\ outcomes[k] = C4_Expected(requests_json[k], C4_AnswerFor(k))
    /\ gen_pc = "finished" => Len(outcomes) = Min(Len(requests_json), Limit)

C4_Witness ==
    /\ gen_pc = "finished"
    /\ Len(outcomes) = 2
    /\ Len(calls) = 2
    /\ calls[1].answer.kind = "raise"
    /\ IsFailure(outcomes[1])
    /\ calls[2].answer.kind = "ok"
    /\ IsSuccessWithText(outcomes[2])
    /\ outcomes[2]["unusual_requirements"] # <<>>

\* C5: in the upload/review loop a failed (or empty) record never hides the
\* other records: whenever the loop is between iterations or has ended,
\* every outcome the pipeline yielded has been rendered in full and
\* appended to results, in order.
C5_LoopShowsEveryOutcome ==
    cons_pc \in {"head", "done", "exported", "crashed"} =>
       /\ Len(results) = Len(outcomes)
       /\ Len(rendered) = Len(outcomes)
       /\ \A k \in 1..Len(rendered) : rendered[k] # "header only"
       /\ ui_error # "KeyError"

\* C6: no record defect (number missing or of any type, Comment of the
\* wrong type or markup only) lets an exception leave the generator, and
\* the generator only ends after every considered record got its outcome.
C6_NoExceptionEscapes ==
    /\ ~escaped
    /\ gen_pc # "raised"
    /\ cons_pc # "crashed"
    /\ gen_pc = "finished" =>
          /\ i = Min(Len(requests_json), Limit)
          /\ Len(outcomes) = i

C6_Witness ==
    /\ gen_pc = "finished"
    /\ Len(outcomes) = 2
    /\ requests_json[1] = Rec(Absent, IntV("5"))
    /\ IsFailure(outcomes[1])
    /\ outcomes[1]["number"] = None
    /\ requests_json[2] = Rec(Absent, MarkupOnly)

\* C7: every text handed to extraction_chain.invoke is non-empty.
C7_ExtractorInputNonEmpty ==
    \A c \in 1..Len(calls) : calls[c].input # <<>>

HasTag(text) ==
    \E p \in 1..Len(text) : \E q \in (p + 1)..Len(text) :
        /\ text[p] = "<"
        /\ text[q] = ">"
        /\ \A r \in (p + 1)..(q - 1) : text[r] # "\n"
HasDoubleSpace(text) ==
    \E p \in 1..(Len(text) - 1) : text[p] = " " /\ text[p + 1] = " "

\* C8 as stated: a second clean_html pass changes nothing exactly when the
\* text has no tag-like substring and no double space.
C8_IdempotentOnlyWhenClean ==
    clean_pc = 2 => ((pass2 = pass1) <=> (~HasTag(t) /\ ~HasDoubleSpace(t)))

\* C8 amended: a second clean_html pass changes nothing whenever the text
\* has no tag-like substring and no double space, and it does change the
\* result for "a  <b>  c".
C8_IdempotentWhenClean ==
    clean_pc = 2 =>
       /\ (~HasTag(t) /\ ~HasDoubleSpace(t)) => pass2 = pass1
       /\ t = Example => pass2 # pass1

C8_Witness ==
    /\ clean_pc = 2
    /\ ~HasTag(t)
    /\ ~HasDoubleSpace(t)
    /\ Len(t) = MaxStrLen
    /\ pass1 # t
    /\ pass1 # <<>>

\* C9: the pipeline is pull driven: the call for record k is issued only
\* once the caller holds the outcomes of records 0..k-1 and is asking for
\* the next, at most one call is in flight, and after the caller stops with
\* n outcomes no call exists for a record of index >= n.
C9_PullDriven ==
    /\ inFlight <= 1
    /\ inFlight = 1 => cons_pc = "waiting"
    /\ \A c \in 1..Len(calls) :
          /\ calls[c].received = calls[c].idx
          /\ cons_pc = "stopped" => calls[c].idx < Len(results)

C9_Witness ==
    /\ cons_pc = "stopped"
    /\ Len(results) = 1
    /\ Len(calls) = 1
    /\ Len(requests_json) = 2
    /\ Get(requests_json[2], "Comment", Absent) = PlainText

\* C10: every fraction idx/total handed to the progress bar lies in (0, 1],
\* and the division never has a zero divisor.
C10_ProgressInRange ==
    /\ ui_error # "ZeroDivisionError"
    /\ \A k \in 1..Len(progress_calls) :
          /\ 0 < progress_calls[k][1]
          /\ progress_calls[k][1] <= progress_calls[k][2]

====
